---- MODULE Spec2Model ----
(***************************************************************************)
(* Model of the soft-mock overlay of mitmweb (mitmproxy/tools/web/app.py): *)
(* the Mock1 table of soft_mock.db, the websocket broadcaster that merges  *)
(* every flows event into it and fans the merged message out, the scope    *)
(* filter ctx.options.host, and the REST handlers that edit the table.     *)
(*                                                                         *)
(* Strings that the code slices or searches (scheme, host, path, url,      *)
(* ctx.options.host) are sequences of one-character strings.  JSON texts   *)
(* and percent-encoded texts are wrapped values, so that json.dumps /      *)
(* json.loads and parse.quote / parse.unquote are conversions and not the  *)
(* identity.  Tornado runs every handler and every broadcast to completion *)
(* on one event loop, so each of them is one atomic action.                *)
(***************************************************************************)
EXTENDS Integers, Sequences, FiniteSets, TLC

VARIABLES Mock1, connections, broken, host, last, loop

vars == <<Mock1, connections, broken, host, last, loop>>

----------------------------------------------------------------------------
(* Bounds of the model. *)

\* most rows the table may hold (inserts into a full table are not explored)
MaxRows == 3

----------------------------------------------------------------------------
(* Strings *)

Str_http == <<"h", "t", "t", "p">>
Str_sep == <<":", "/", "/">>
Str_empty == << >>
Str_a_com == <<"a", ".", "c", "o", "m">>
Str_b_com == <<"b", ".", "c", "o", "m">>
Str_api_a_com == <<"a", "p", "i", ".", "a", ".", "c", "o", "m">>
Str_p_x == <<"/", "p", "?", "x", "=", "1">>
Str_p_y == <<"/", "p", "?", "y", "=", "2">>
Str_p_slash == <<"/", "p", "/">>

\* Python's  a in b  on str: a occurs in b as a contiguous substring
Contains(b, a) ==
    \E i \in 0..(Len(b) - Len(a)) : SubSeq(b, i + 1, i + Len(a)) = a

\* Python's  s.split('?')[0]: the part of s before its first '?'
SplitQuery(s) ==
    LET qs == {i \in 1..Len(s) : s[i] = "?"}
    IN  IF qs = {} THEN s
        ELSE SubSeq(s, 1, (CHOOSE i \in qs : \A j \in qs : i <= j) - 1)

----------------------------------------------------------------------------
(* The events handed to broadcast, as flow_to_json builds them *)

Ids == {1, 2}
Cmds == {"create", "update"}

\* the response of a flow: the key is absent, or null, or an object whose
\* html is the decoded body or None
NoHtml == "None"
Absent == [kind |-> "absent", status_code |-> 0, html |-> NoHtml]
Null == [kind |-> "null", status_code |-> 0, html |-> NoHtml]
Response(code, html) == [kind |-> "obj", status_code |-> code, html |-> html]

EventResponses ==
    {Absent, Response(200, "h1"), Response(200, "h2"), Response(304, NoHtml)}

Request(h, p) == [scheme |-> Str_http, host |-> h, path |-> p]

FlowEventsOf(cmds, ids, requests, responses) ==
    [cmd : cmds, resource : {"flows"},
     data : [id : ids, request : requests, response : responses]]

\* an event of another resource (events, settings, options)
OtherEvents ==
    {[cmd |-> "add", resource |-> "events",
      data |-> [id |-> 1, request |-> Request(Str_empty, Str_empty),
                response |-> Absent]]}

----------------------------------------------------------------------------
(* json.dumps / json.loads and parse.quote / parse.unquote *)

NoDoc ==
    [cmd |-> "", resource |-> "",
     data |-> [id |-> 0, request |-> Request(Str_empty, Str_empty),
               response |-> Absent]]

\* json.dumps(kwargs): the JSON text of the document
Dumps(kwargs) == [wf |-> TRUE, doc |-> kwargs]

\* a request body that is no JSON record document
Malformed == [wf |-> FALSE, doc |-> NoDoc]

\* json.loads(text) raises on a text that is no JSON document
LoadsRaises(text) == ~text.wf
Loads(text) == text.doc

\* parse.quote(text) and parse.unquote(text)
Quote(text) == [quoted |-> text]
Unquote(q) == q.quoted

----------------------------------------------------------------------------
(* The Mock1 table: rows (id, detail, url, status) in rowid order *)

\* the id column of a row inserted without an id
NullId == 0

\* a table whose url column is not unique
UniqueUrl_Off == FALSE

\* the url column is unique: an insert of a second row for a url fails
UniqueUrl == TRUE

Row(id, detail, url, status) ==
    [id |-> id, detail |-> detail, url |-> url, status |-> status]

RowsOf(table, url) == {i \in 1..Len(table) : table[i].url = url}

\* select count(*) from Mock1 where url=...
CountUrl(table, url) == Cardinality(RowsOf(table, url))

\* select detail from Mock1 where url=... : the first row of the result
SelectDetail(table, url) ==
    table[CHOOSE i \in RowsOf(table, url) : \A j \in RowsOf(table, url) : i <= j].detail

\* an update of the detail that sets the status of the row back to '1'
UpdateDetail_ResetStatus(table, url, detail) ==
    [i \in 1..Len(table) |->
        IF table[i].url = url
        THEN [table[i] EXCEPT !.detail = detail, !.status = "1"]
        ELSE table[i]]

\* update Mock1 set detail=? where url=?
UpdateDetail(table, url, detail) ==
    [i \in 1..Len(table) |->
        IF table[i].url = url THEN [table[i] EXCEPT !.detail = detail]
        ELSE table[i]]

\* an update that inserts the row when no row has the url
UpdateDetailStatus_Upsert(table, url, detail, status) ==
    IF \E i \in 1..Len(table) : table[i].url = url
    THEN [i \in 1..Len(table) |->
             IF table[i].url = url
             THEN [table[i] EXCEPT !.detail = detail, !.status = status]
             ELSE table[i]]
    ELSE Append(table, [id |-> 0, detail |-> detail, url |-> url, status |-> status])

\* update Mock1 set detail=..., status=... where url=...
UpdateDetailStatus(table, url, detail, status) ==
    [i \in 1..Len(table) |->
        IF table[i].url = url
        THEN [table[i] EXCEPT !.detail = detail, !.status = status]
        ELSE table[i]]

\* insert into Mock1 ... raises sqlite3.IntegrityError on a duplicate url
InsertRaises(table, row) == UniqueUrl /\ CountUrl(table, row.url) > 0
Insert(table, row) == Append(table, row)

RECURSIVE DeleteWhere(_, _)
\* delete from Mock1 where the url is in the set urls
DeleteWhere(table, urls) ==
    IF table = << >> THEN << >>
    ELSE IF Head(table).url \in urls THEN DeleteWhere(Tail(table), urls)
         ELSE <<Head(table)>> \o DeleteWhere(Tail(table), urls)

\* url like '%pattern%'
Like(url, pattern) == Contains(url, pattern)

----------------------------------------------------------------------------
(* WebSocketEventBroadcaster.broadcast *)

\* a broadcast that takes the events of every resource
NotFlows_Never(resource) == FALSE

\* if resource != "flows": return
NotFlows(resource) == resource # "flows"

\* ctx.options.host in kwargs['data']['request']['host']
InScope(h, kwargs) == Contains(kwargs.data.request.host, h)

\* is_update_response: the event has a response and the response has html
is_update_response(kwargs) ==
    /\ kwargs.data.response.kind = "obj"
    /\ kwargs.data.response.html # NoHtml

\* a key that keeps the query string
Canonical_KeepQuery(req) == req.scheme \o <<":", "/", "/">> \o req.host \o req.path

\* url = req['scheme'] + '://' + req['host'] + req['path'].split('?')[0]
Canonical(req) == req.scheme \o Str_sep \o req.host \o SplitQuery(req.path)

\* result['data'].get('response', None)
GetResponse(data) == IF data.response.kind = "absent" THEN Null ELSE data.response

\* a merge that always keeps the response of the stored record
Merged_AlwaysStored(kwargs, result) ==
    [cmd |-> "update",
     resource |-> kwargs.resource,
     data |-> [id |-> result.data.id,
               request |-> kwargs.data.request,
               response |-> IF result.data.response.kind = "absent"
                            THEN Null ELSE result.data.response]]

\* a merge that always takes the response of the event
Merged_NoRetention(kwargs, result) ==
    [cmd |-> "update",
     resource |-> kwargs.resource,
     data |-> [id |-> result.data.id,
               request |-> kwargs.data.request,
               response |-> kwargs.data.response]]

\* the branch for an existing record: the stored id, cmd update, and the
\* stored response unless the event has html
Merged(kwargs, result) ==
    [cmd |-> "update",
     resource |-> kwargs.resource,
     data |-> [id |-> result.data.id,
               request |-> kwargs.data.request,
               response |-> IF ~is_update_response(kwargs)
                            THEN GetResponse(result.data)
                            ELSE kwargs.data.response]]

\* the branch for a new record: kwargs as it came
Created(kwargs) == kwargs

\* a fan-out of the event as it came in, before the merge
Written_PreMerge(kwargs, message) == Dumps(kwargs)

\* what the loop over cls.connections writes to every connection: the
\* message just stored, unquoted (kwargs is the event as it came in)
Written(kwargs, message) == Unquote(message)

\* the orders in which  for conn in cls.connections  may go through the set
Orderings(S) ==
    {f \in [1..Cardinality(S) -> S] : \A i, j \in 1..Cardinality(S) : f[i] = f[j] => i = j}

\* a loop that the first failing write_message ends
FanOut_Abort(order) ==
    {order[i] : i \in {k \in 1..Len(order) : \A j \in 1..k : order[j] \notin broken}}

\* the connections the loop writes the message to: write_message raises on
\* a broken connection, the exception is passed over and the loop goes on
FanOut(order) ==
    {order[i] : i \in {k \in 1..Len(order) : order[k] \notin broken}}

\* the sets of connections a fan-out may reach
Recipients == {FanOut(order) : order \in Orderings(connections)}

NoText == [wf |-> FALSE, doc |-> NoDoc]

Outcome(op, kwargs, url, body, status, outcome, sent, msg) ==
    [op |-> op, kwargs |-> kwargs, url |-> url, body |-> body,
     status |-> status, pre |-> Mock1, host |-> host, conns |-> connections,
     outcome |-> outcome, sent |-> sent, msg |-> msg, to |-> {},
     listing |-> << >>]

Broadcast(kwargs) ==
    LET url == Canonical(kwargs.data.request)
        Done(outcome, sent, msg) ==
            Outcome("broadcast", kwargs, url, NoText, "", outcome, sent, msg)
    IN  /\ UNCHANGED <<connections, broken, host>>
        /\ IF NotFlows(kwargs.resource)
           THEN /\ last' = Done("ignored", FALSE, NoText)
                /\ UNCHANGED Mock1
           ELSE IF ~InScope(host, kwargs)
           THEN /\ last' = Done("dropped", FALSE, NoText)
                /\ UNCHANGED Mock1
           ELSE IF CountUrl(Mock1, url) > 0
           THEN LET js == SelectDetail(Mock1, url)
                IN  IF LoadsRaises(Unquote(js))
                    THEN /\ last' = Done("raised", FALSE, NoText)
                         /\ UNCHANGED Mock1
                    ELSE LET message ==
                                 Quote(Dumps(Merged(kwargs, Loads(Unquote(js)))))
                         IN  /\ Mock1' = UpdateDetail(Mock1, url, message)
                             /\ \E to \in Recipients :
                                   last' = [Done("merged", TRUE, Written(kwargs, message))
                                               EXCEPT !.to = to]
           ELSE LET message == Quote(Dumps(Created(kwargs)))
                    row == Row(kwargs.data.id, message, url, "1")
                IN  /\ Len(Mock1) < MaxRows
                    /\ ~InsertRaises(Mock1, row)
                    /\ Mock1' = Insert(Mock1, row)
                    /\ \E to \in Recipients :
                          last' = [Done("created", TRUE, Written(kwargs, message))
                                      EXCEPT !.to = to]

----------------------------------------------------------------------------
(* The REST handlers that edit the table, and the scope filter *)

\* the documents a client posts as the body of /create and /update_flow
GatewayDocs(ids, responses) ==
    [cmd : {"update"}, resource : {"flows"},
     data : [id : ids, request : {Request(Str_api_a_com, Str_p_x)},
             response : responses]]

\* a create that sends the new record to the connections
CreateFlow_Broadcasts(url, body) ==
    LET row == Row(NullId, Quote(body), url, "1")
    IN  /\ UNCHANGED <<connections, broken, host>>
        /\ IF InsertRaises(Mock1, row)
           THEN /\ UNCHANGED Mock1
                /\ last' = Outcome("create", NoDoc, url, body, "1", "raised", FALSE, NoText)
           ELSE /\ Len(Mock1) < MaxRows
                /\ Mock1' = Insert(Mock1, row)
                /\ \E to \in Recipients :
                      last' = [Outcome("create", NoDoc, url, body, "1", "ok", TRUE, body)
                                  EXCEPT !.to = to]

CreateFlow(url, body) ==
    LET row == Row(NullId, Quote(body), url, "1")
    IN  /\ UNCHANGED <<connections, broken, host>>
        /\ IF InsertRaises(Mock1, row)
           THEN /\ UNCHANGED Mock1
                /\ last' = Outcome("create", NoDoc, url, body, "1", "raised", FALSE, NoText)
           ELSE /\ Len(Mock1) < MaxRows
                /\ Mock1' = Insert(Mock1, row)
                /\ last' = Outcome("create", NoDoc, url, body, "1", "ok", FALSE, NoText)

\* an update that merges as broadcast does: the stored id, and the stored
\* response unless the body has html
UpdateFlow_Retaining(url, status, body) ==
    LET merges == /\ CountUrl(Mock1, url) > 0
                  /\ ~LoadsRaises(body)
                  /\ ~LoadsRaises(Unquote(SelectDetail(Mock1, url)))
        text == IF merges
                THEN Dumps(Merged(Loads(body), Loads(Unquote(SelectDetail(Mock1, url)))))
                ELSE body
    IN  /\ UNCHANGED <<connections, broken, host>>
        /\ Mock1' = UpdateDetailStatus(Mock1, url, Quote(text), status)
        /\ last' = Outcome("update", NoDoc, url, body, status, "ok", FALSE, NoText)

UpdateFlow(url, status, body) ==
    /\ UNCHANGED <<connections, broken, host>>
    /\ Mock1' = UpdateDetailStatus(Mock1, url, Quote(body), status)
    /\ last' = Outcome("update", NoDoc, url, body, status, "ok", FALSE, NoText)

\* UpdateStatus is no RequestHandler: the request for /update_status fails
\* before post runs
UpdateStatus(url, status) ==
    /\ UNCHANGED <<Mock1, connections, broken, host>>
    /\ last' = Outcome("setEnabled", NoDoc, url, NoText, status, "raised", FALSE, NoText)

\* a delete that takes every row whose url contains the given one
DeleteFlow_Like(url) ==
    /\ UNCHANGED <<connections, broken, host>>
    /\ Mock1' = DeleteWhere(Mock1, {Mock1[i].url : i \in {j \in 1..Len(Mock1) : Like(Mock1[j].url, url)}})
    /\ last' = Outcome("delete", NoDoc, url, NoText, "", "ok", FALSE, NoText)

DeleteFlow(url) ==
    /\ UNCHANGED <<connections, broken, host>>
    /\ Mock1' = DeleteWhere(Mock1, {url})
    /\ last' = Outcome("delete", NoDoc, url, NoText, "", "ok", FALSE, NoText)

SOFTMOCK_ClearAll ==
    /\ UNCHANGED <<connections, broken, host>>
    /\ Mock1' = DeleteWhere(Mock1, {Mock1[i].url : i \in {j \in 1..Len(Mock1) : Like(Mock1[j].url, host)}})
    /\ last' = Outcome("clearScope", NoDoc, Str_empty, NoText, "", "ok", FALSE, NoText)

\* select * from Mock1 where url like '%pattern%', in rowid order
SelectLike(table, pattern) == SelectSeq(table, LAMBDA r : Like(r.url, pattern))

\* parse.unquote of a status, a text without percent escapes
UnquoteStatus(status) == status

\* GET /flows: the data of every selected payload with the status of its
\* row; json.loads raises on a payload that is no JSON and the request fails
Flows ==
    LET rows == SelectLike(Mock1, host)
        raises == \E i \in 1..Len(rows) : LoadsRaises(Unquote(rows[i].detail))
        result == [i \in 1..Len(rows) |->
                      [data |-> Loads(Unquote(rows[i].detail)).data,
                       status |-> UnquoteStatus(rows[i].status)]]
    IN  /\ UNCHANGED <<Mock1, connections, broken, host>>
        /\ last' = [Outcome("list", NoDoc, Str_empty, NoText, "",
                            IF raises THEN "raised" ELSE "ok", FALSE, NoText)
                       EXCEPT !.listing = IF raises THEN << >> ELSE result]

IndexHandler(host_filter) ==
    /\ UNCHANGED <<Mock1, connections, broken>>
    /\ host' = host_filter
    /\ last' = Outcome("index", NoDoc, Str_empty, NoText, "", "ok", FALSE, NoText)

open(conn) ==
    /\ conn \notin connections
    /\ connections' = connections \cup {conn}
    /\ UNCHANGED <<Mock1, broken, host>>
    /\ last' = Outcome("open", NoDoc, Str_empty, NoText, "", "ok", FALSE, NoText)

\* the peer of a connection goes away: write_message on it raises from now
\* on, until on_close takes it out of the set
Break(conn) ==
    /\ conn \in connections \ broken
    /\ broken' = broken \cup {conn}
    /\ UNCHANGED <<Mock1, connections, host>>
    /\ last' = Outcome("break", NoDoc, Str_empty, NoText, "", "ok", FALSE, NoText)

on_close(conn) ==
    /\ conn \in connections
    /\ connections' = connections \ {conn}
    /\ broken' = broken \ {conn}
    /\ UNCHANGED <<Mock1, host>>
    /\ last' = Outcome("close", NoDoc, Str_empty, NoText, "", "ok", FALSE, NoText)

----------------------------------------------------------------------------
(* Requests that wait on the event loop at the same time.  loop holds a
   pair of writers of one key that arrived together, the table at their
   arrival, and for each of them how far it has run: "none", "ready",
   "checked" (a broadcast after its select count) or "done" *)

\* a writer: a flows event, or a POST /create or /update_flow
Writer(kind, kwargs, url, status, body) ==
    [kind |-> kind, kwargs |-> kwargs, url |-> url, status |-> status, body |-> body]

NoWriter == Writer("none", NoDoc, Str_empty, "", NoText)

IdleLoop ==
    [pair |-> <<NoWriter, NoWriter>>, start |-> << >>,
     pos |-> <<"none", "none">>, exists |-> <<FALSE, FALSE>>,
     seen |-> << << >>, << >> >>]

\* a broadcast with an await between its select count and its write
Yields_AfterCheck == {"checked"}

\* the places of broadcast where it gives the event loop to another
\* callback: broadcast and the handlers are plain functions without await
Yields == {}

\* the events and the requests are callbacks of one event loop, and not
\* threads that may run at any place of one another
OneLoop == TRUE

\* another callback may start: no broadcast is between its select count and
\* its write, or that place gives the loop away
MayStart ==
    \/ ~OneLoop
    \/ \A i \in 1..2 : loop.pos[i] = "checked" => "checked" \in Yields

\* the table after the branch of broadcast that exists chose
BroadcastTable(table, h, kwargs, exists) ==
    LET url == Canonical(kwargs.data.request)
    IN  IF NotFlows(kwargs.resource) \/ ~InScope(h, kwargs) THEN table
        ELSE IF exists
        THEN IF CountUrl(table, url) = 0 THEN table
             ELSE IF LoadsRaises(Unquote(SelectDetail(table, url))) THEN table
             ELSE UpdateDetail(table, url,
                      Quote(Dumps(Merged(kwargs, Loads(Unquote(SelectDetail(table, url)))))))
        ELSE LET row == Row(kwargs.data.id, Quote(Dumps(Created(kwargs))), url, "1")
             IN  IF InsertRaises(table, row) THEN table ELSE Insert(table, row)

\* how that branch ends
BroadcastOutcome(table, h, kwargs, exists) ==
    LET url == Canonical(kwargs.data.request)
    IN  IF NotFlows(kwargs.resource) THEN "ignored"
        ELSE IF ~InScope(h, kwargs) THEN "dropped"
        ELSE IF exists
        THEN IF CountUrl(table, url) = 0 THEN "raised"
             ELSE IF LoadsRaises(Unquote(SelectDetail(table, url))) THEN "raised"
             ELSE "merged"
        ELSE IF InsertRaises(table, Row(kwargs.data.id, Quote(Dumps(Created(kwargs))), url, "1"))
             THEN "raised" ELSE "created"

----------------------------------------------------------------------------

DefaultHost == Str_empty

Init ==
    /\ Mock1 = << >>
    /\ connections = {}
    /\ broken = {}
    /\ host = DefaultHost
    /\ last = [op |-> "none", kwargs |-> NoDoc, url |-> Str_empty, body |-> NoText,
               status |-> "", pre |-> << >>, host |-> DefaultHost, conns |-> {},
               outcome |-> "ok", sent |-> FALSE, msg |-> NoText, to |-> {},
               listing |-> << >>]
    /\ loop = IdleLoop

\* one step of the server over the inputs of a universe, each request run
\* from its start to its end
Step(U) ==
    /\ UNCHANGED loop
    /\ \/ \E kwargs \in U.events : Broadcast(kwargs)
       \/ \E url \in U.urls, body \in U.bodies : CreateFlow(url, body)
       \/ \E url \in U.urls, status \in U.statuses, body \in U.bodies :
             UpdateFlow(url, status, body)
       \/ \E url \in U.urls, status \in U.statuses : UpdateStatus(url, status)
       \/ \E url \in U.urls : DeleteFlow(url)
       \/ SOFTMOCK_ClearAll
       \/ Flows
       \/ \E host_filter \in U.filters : IndexHandler(host_filter)
       \/ \E conn \in U.conns : open(conn)
       \/ \E conn \in U.conns : Break(conn)
       \/ \E conn \in U.conns : on_close(conn)

----------------------------------------------------------------------------
(* Spec: one record key, every shape of event and of stored payload *)

MergeRequests ==
    {Request(Str_api_a_com, Str_p_x), Request(Str_api_a_com, Str_p_y)}

MergeUniverse ==
    [events |-> FlowEventsOf(Cmds, Ids, MergeRequests, EventResponses)
                    \cup OtherEvents,
     urls |-> {Canonical(r) : r \in MergeRequests},
     bodies |-> {Dumps(d) : d \in GatewayDocs({2}, {Absent, Response(200, "h1")})}
                    \cup {Malformed},
     statuses |-> {"0", "1"},
     filters |-> {Str_empty, Str_a_com, Str_b_com},
     conns |-> {"c1"}]

Next == Step(MergeUniverse)

Spec == Init /\ [][Next]_vars

----------------------------------------------------------------------------
(* SpecKeys: several record keys and hosts, few shapes of payload *)

KeyRequests ==
    {Request(Str_api_a_com, Str_p_x), Request(Str_api_a_com, Str_p_y),
     Request(Str_api_a_com, Str_p_slash)}

KeyUniverse ==
    [events |-> FlowEventsOf(Cmds, {1}, KeyRequests, {Absent}) \cup OtherEvents,
     urls |-> {Canonical(r) : r \in KeyRequests},
     bodies |-> {Dumps(d) : d \in GatewayDocs({2}, {Absent})} \cup {Malformed},
     statuses |-> {"0"},
     filters |-> {Str_empty, Str_b_com},
     conns |-> {"c1"}]

NextKeys == Step(KeyUniverse)

SpecKeys == Init /\ [][NextKeys]_vars

----------------------------------------------------------------------------
(* SpecGateway: two record keys with a response, edited through the REST
   handlers *)

GatewayRequests ==
    {Request(Str_api_a_com, Str_p_x), Request(Str_api_a_com, Str_p_slash)}

GatewayUniverse ==
    [events |-> FlowEventsOf({"create"}, {1}, GatewayRequests, {Response(200, "h1")})
                    \cup OtherEvents,
     urls |-> {Canonical(r) : r \in GatewayRequests},
     bodies |-> {Dumps(d) : d \in GatewayDocs({2}, {Absent})} \cup {Malformed},
     statuses |-> {"0", "1"},
     filters |-> {Str_empty, Str_b_com},
     conns |-> {"c1"}]

NextGateway == Step(GatewayUniverse)

SpecGateway == Init /\ [][NextGateway]_vars

----------------------------------------------------------------------------
(* SpecHub: several connections, one record key, few shapes of payload *)

HubRequests == {Request(Str_api_a_com, Str_p_x)}

HubUniverse ==
    [events |-> FlowEventsOf({"create"}, {1}, HubRequests, {Absent}) \cup OtherEvents,
     urls |-> {Canonical(r) : r \in HubRequests},
     bodies |-> {Dumps(d) : d \in GatewayDocs({2}, {Absent})},
     statuses |-> {"0"},
     filters |-> {Str_empty, Str_b_com},
     conns |-> {"c1", "c2"}]

NextHub == Step(HubUniverse)

SpecHub == Init /\ [][NextHub]_vars

----------------------------------------------------------------------------
(* SpecLoop: a flows event and another writer of the same key wait on the
   event loop together; broadcast runs in two steps, its select count and
   its write *)

LoopEvents == FlowEventsOf({"create"}, Ids, HubRequests, {Absent, Response(200, "h1")})

IngestWriters ==
    {Writer("ingest", e, Canonical(e.data.request), "", NoText) : e \in LoopEvents}

LoopBodies == {Dumps(d) : d \in GatewayDocs({2}, {Absent})} \cup {Malformed}

GatewayWriters ==
    {Writer("create", NoDoc, Canonical(r), "1", b) : r \in HubRequests, b \in LoopBodies}
        \cup {Writer("update", NoDoc, Canonical(r), "0", b) : r \in HubRequests, b \in LoopBodies}

\* a flows event and another writer of its key arrive while the loop is busy
\* with neither
Submit(w1, w2) ==
    /\ \A i \in 1..2 : loop.pos[i] \in {"none", "done"}
    /\ w1.url = w2.url
    /\ loop' = [IdleLoop EXCEPT !.pair = <<w1, w2>>, !.start = Mock1,
                                !.pos = <<"ready", "ready">>]
    /\ UNCHANGED <<Mock1, connections, broken, host, last>>

\* the loop runs a waiting POST /create or /update_flow
RunGateway(i) ==
    LET w == loop.pair[i]
    IN  /\ loop.pos[i] = "ready"
        /\ MayStart
        /\ \/ w.kind = "create" /\ CreateFlow(w.url, w.body)
           \/ w.kind = "update" /\ UpdateFlow(w.url, w.status, w.body)
        /\ loop' = [loop EXCEPT !.pos[i] = "done"]

\* the loop starts a waiting broadcast, which runs to its select count
BroadcastCheck(i) ==
    LET w == loop.pair[i]
    IN  /\ loop.pos[i] = "ready"
        /\ MayStart
        /\ w.kind = "ingest"
        /\ loop' = [loop EXCEPT !.pos[i] = "checked",
                                !.exists[i] = CountUrl(Mock1, w.url) > 0,
                                !.seen[i] = Mock1]
        /\ UNCHANGED <<Mock1, connections, broken, host, last>>

\* the broadcast goes on from its select count to its end
BroadcastWrite(i) ==
    LET w == loop.pair[i]
    IN  /\ loop.pos[i] = "checked"
        /\ Mock1' = BroadcastTable(Mock1, host, w.kwargs, loop.exists[i])
        /\ last' = Outcome("broadcast", w.kwargs, w.url, NoText, "",
                           BroadcastOutcome(Mock1, host, w.kwargs, loop.exists[i]),
                           FALSE, NoText)
        /\ loop' = [loop EXCEPT !.pos[i] = "done"]
        /\ UNCHANGED <<connections, broken, host>>

\* between two pairs of writers the record of the key is deleted
Reset ==
    /\ \A i \in 1..2 : loop.pos[i] \in {"none", "done"}
    /\ \E r \in HubRequests : DeleteFlow(Canonical(r))
    /\ loop' = IdleLoop

NextLoop ==
    \/ \E w1 \in IngestWriters, w2 \in IngestWriters \cup GatewayWriters : Submit(w1, w2)
    \/ \E i \in 1..2 : RunGateway(i)
    \/ \E i \in 1..2 : BroadcastCheck(i)
    \/ \E i \in 1..2 : BroadcastWrite(i)
    \/ Reset

SpecLoop == Init /\ [][NextLoop]_vars

----------------------------------------------------------------------------
(* What the last step was, read from the variable last *)

\* the last step was broadcast on a flows event
Ingest == last.op = "broadcast" /\ last.kwargs.resource = "flows"

\* the scope filter at the time of the last step admits the host of its event
ScopeAdmits ==
    \/ last.host = Str_empty
    \/ Contains(last.kwargs.data.request.host, last.host)

\* the table held a row for the key of the last step before the step
Existed == CountUrl(last.pre, last.url) > 0

\* the text stored for the key of the last step before the step, and now
TextBefore == Unquote(SelectDetail(last.pre, last.url))
TextNow == Unquote(SelectDetail(Mock1, last.url))

\* the stored record before the step was a record document with a response
HadResponse ==
    /\ Existed
    /\ TextBefore.wf
    /\ TextBefore.doc.data.response.kind = "obj"

\* the event of the last step has no response, or a response without a body
LacksBody ==
    \/ last.kwargs.data.response.kind # "obj"
    \/ last.kwargs.data.response.html = NoHtml

----------------------------------------------------------------------------
(* C1 *)

\* C1: uniqueness. Whatever sequence of ingest events and of create, update,
\* setEnabled, delete and clearScope requests has run, on whatever keys, no
\* two rows of Mock1 have the same url; a create for a url that has a row
\* adds no second row.
C1_Uniqueness ==
    \A i, j \in 1..Len(Mock1) : Mock1[i].url = Mock1[j].url => i = j

\* a create request was made for a url that already had a row, next to a row
\* of another url
C1_Witness ==
    /\ last.op = "create"
    /\ Existed
    /\ Len(Mock1) = 2

----------------------------------------------------------------------------
(* C2 *)

\* C2: response retention. When the stored record of the key has a response
\* R and an in-scope flows event for the key has no response, or a response
\* without a body, then the record stored and the message written to the
\* subscribers both have response R.
C2_ResponseRetention ==
    (Ingest /\ ScopeAdmits /\ HadResponse /\ LacksBody) =>
        /\ last.sent
        /\ last.to = connections \ broken
        /\ last.msg.wf
        /\ last.msg.doc.data.response = TextBefore.doc.data.response
        /\ CountUrl(Mock1, last.url) = 1
        /\ TextNow.wf
        /\ TextNow.doc.data.response = TextBefore.doc.data.response

\* an event with a response without body met a record with a response with a
\* body, and a subscriber was written to
C2_Witness ==
    /\ Ingest /\ ScopeAdmits /\ HadResponse /\ LacksBody
    /\ last.kwargs.data.response.kind = "obj"
    /\ TextBefore.doc.data.response.html # NoHtml
    /\ last.to # {}

----------------------------------------------------------------------------
(* C3 *)

\* the event of the last step has a response with a body
HasBody == ~LacksBody

\* C3 as stated: when the stored record has a response and an in-scope
\* flows event for the key carries any response, whatever its status or
\* body, the record stored and the message written have the response of the
\* event.
C3_AnyResponseReplaces ==
    (Ingest /\ ScopeAdmits /\ HadResponse
        /\ last.kwargs.data.response.kind = "obj") =>
        /\ last.sent
        /\ last.msg.doc.data.response = last.kwargs.data.response
        /\ TextNow.doc.data.response = last.kwargs.data.response

\* C3 as amended: when the stored record has a response and an in-scope
\* flows event for the key carries a response with a body (html), the record
\* stored and the message written have the response of the event.
C3_ResponseReplacement ==
    (Ingest /\ ScopeAdmits /\ HadResponse /\ HasBody) =>
        /\ last.sent
        /\ last.to = connections \ broken
        /\ last.msg.wf
        /\ last.msg.doc.data.response = last.kwargs.data.response
        /\ CountUrl(Mock1, last.url) = 1
        /\ TextNow.wf
        /\ TextNow.doc.data.response = last.kwargs.data.response

\* a response with a body replaced a different stored response
C3_Witness ==
    /\ Ingest /\ ScopeAdmits /\ HadResponse /\ HasBody
    /\ TextBefore.doc.data.response # last.kwargs.data.response
    /\ TextBefore.doc.data.response.html # NoHtml
    /\ last.to # {}

----------------------------------------------------------------------------
(* C4 *)

\* absent and null are both no response
NoResponse(r) == r.kind \in {"absent", "null"}
SameResponse(a, b) == (NoResponse(a) /\ NoResponse(b)) \/ a = b

\* C4: in the branch for an existing record the stored response is kept
\* only when the event lacks a response body and the stored record has a
\* response; in every other case the merged response, stored and written, is
\* the one of the event. So an event with a response that meets a record
\* without one leaves that response in the merged record.
C4_StoredKeptOnlyWhenPresent ==
    (Ingest /\ ScopeAdmits /\ Existed /\ TextBefore.wf) =>
        LET expected ==
                IF LacksBody /\ HadResponse
                THEN TextBefore.doc.data.response
                ELSE last.kwargs.data.response
        IN  /\ last.sent
            /\ SameResponse(last.msg.doc.data.response, expected)
            /\ SameResponse(TextNow.doc.data.response, expected)

----------------------------------------------------------------------------
(* C5 *)

\* url is scheme + "://" + host + the path of req cut before its first "?"
IsKeyOf(url, req) ==
    \E n \in 0..Len(req.path) :
        /\ \A i \in 1..n : req.path[i] # "?"
        /\ n = Len(req.path) \/ req.path[n + 1] = "?"
        /\ url = req.scheme \o <<":", "/", "/">> \o req.host
                    \o SubSeq(req.path, 1, n)

\* C5: canonicalization. The record an in-scope flows event addresses is
\* the one whose url is scheme://host + the path cut at its first "?", and
\* nothing else is normalised: an event that differs from an earlier one
\* only in the query string merges into the same single row and adds none,
\* an event whose cut path differs (by a trailing slash) gets a row of its
\* own, and rows of other urls are left as they were.
C5_Canonicalization ==
    /\ Canonical(Request(Str_api_a_com, Str_p_x))
          = Canonical(Request(Str_api_a_com, Str_p_y))
    /\ Canonical(Request(Str_api_a_com, Str_p_x))
          # Canonical(Request(Str_api_a_com, Str_p_slash))
    /\ (Ingest /\ ScopeAdmits) =>
        LET req == last.kwargs.data.request
            before == {i \in 1..Len(last.pre) : IsKeyOf(last.pre[i].url, req)}
            now == {i \in 1..Len(Mock1) : IsKeyOf(Mock1[i].url, req)}
        IN  /\ Len(Mock1) = IF before # {} THEN Len(last.pre)
                            ELSE IF last.sent THEN Len(last.pre) + 1
                            ELSE Len(last.pre)
            /\ \A i \in 1..Len(last.pre) :
                  i \notin before => Mock1[i] = last.pre[i]
            /\ last.sent =>
                  /\ Cardinality(now) = 1
                  /\ \A i \in now : Unquote(Mock1[i].detail) = last.msg
                  /\ last.msg.doc.data.request = req

\* an event merged into the row made by an event with another query string,
\* while the row of the path with the trailing slash stands beside it
C5_Witness ==
    /\ Ingest /\ ScopeAdmits /\ Existed /\ last.sent
    /\ TextBefore.wf
    /\ TextBefore.doc.data.request.path = Str_p_x
    /\ last.kwargs.data.request.path = Str_p_y
    /\ Len(Mock1) = 2
    /\ Len(last.pre) = 2

----------------------------------------------------------------------------
(* C6 *)

\* C6: merge on an existing record. For every in-scope flows event whose
\* key has a stored record, whatever its command, the message stored and
\* written has command update, the id of the existing record, and the
\* request of the event.
C6_MergeOnExisting ==
    (Ingest /\ ScopeAdmits /\ Existed) =>
        /\ last.sent
        /\ last.msg.wf
        /\ last.msg.doc.cmd = "update"
        /\ TextBefore.wf
        /\ last.msg.doc.data.id = TextBefore.doc.data.id
        /\ last.msg.doc.data.request = last.kwargs.data.request
        /\ TextNow = last.msg

----------------------------------------------------------------------------
(* C7 *)

\* C7: create on a missing record. For every in-scope flows event whose key
\* has no stored record, whatever its command, exactly one row is added,
\* with status '1', the id and the payload of the event, and the message
\* stored and written has command create.
C7_CreateOnMissing ==
    (Ingest /\ ScopeAdmits /\ ~Existed) =>
        /\ last.sent
        /\ Len(Mock1) = Len(last.pre) + 1
        /\ SubSeq(Mock1, 1, Len(last.pre)) = last.pre
        /\ LET row == Mock1[Len(Mock1)]
           IN  /\ row.status = "1"
               /\ row.id = last.kwargs.data.id
               /\ Unquote(row.detail).wf
               /\ Unquote(row.detail).doc.data = last.kwargs.data
               /\ Unquote(row.detail).doc.cmd = "create"
        /\ last.msg.doc.data = last.kwargs.data
        /\ last.msg.doc.cmd = "create"

----------------------------------------------------------------------------
(* C8 *)

\* the id column the row of the key got when it was inserted
IdAtCreation ==
    last.pre[CHOOSE i \in RowsOf(last.pre, last.url) :
                \A j \in RowsOf(last.pre, last.url) : i <= j].id

\* C8: id stability. As long as the record of a key is not deleted, through
\* ingest events and update and setEnabled requests for the key, the id
\* stored for the key and the id of every message written for it are the id
\* the record got when it was created.
C8_IdStable ==
    (Ingest /\ ScopeAdmits /\ Existed /\ last.sent /\ IdAtCreation # NullId) =>
        /\ last.msg.doc.data.id = IdAtCreation
        /\ TextNow.doc.data.id = IdAtCreation

----------------------------------------------------------------------------
(* C9 *)

\* C9: the message an ingest step writes to the subscribers is the merged
\* record that the step has just stored for the key (id, command and
\* payload), never the event as it came in.
C9_DeliveredIsCommitted ==
    (last.op = "broadcast" /\ last.sent) =>
        /\ last.to = connections \ broken
        /\ CountUrl(Mock1, last.url) = 1
        /\ last.msg.wf
        /\ last.msg = TextNow
        /\ Existed => last.msg.doc.cmd = "update"

\* a subscriber was written a merged message that differs from the event
C9_Witness ==
    /\ last.op = "broadcast" /\ last.sent
    /\ Existed
    /\ last.msg # Dumps(last.kwargs)
    /\ last.msg.doc.data.id # last.kwargs.data.id
    /\ last.to # {}

----------------------------------------------------------------------------
(* C10 *)

\* C10: scope gating. A flows event is written to the subscribers, all of
\* them, if and only if ctx.options.host at that time is empty or occurs in
\* the host of the request of the event.
C10_ScopeGating ==
    Ingest => ((last.sent /\ last.to = connections \ broken) <=> ScopeAdmits)

----------------------------------------------------------------------------
\* C11: a flows event whose host the non-empty scope filter does not match
\* is delivered to no connection, and is still created or merged into the
\* table exactly as an event in scope would be.
\* broadcast returns on the scope check before it reads or writes the table.
C11_PersistsOutOfScope ==
    (Ingest /\ ~ScopeAdmits) =>
        /\ ~last.sent
        /\ last.to = {}
        /\ CountUrl(Mock1, last.url) = 1
        /\ ~Existed => TextNow = Dumps(Created(last.kwargs))
        /\ (Existed /\ TextBefore.wf) =>
               TextNow = Dumps(Merged(last.kwargs, Loads(TextBefore)))

----------------------------------------------------------------------------
\* C12: an event whose resource is not flows is ignored: the table and the
\* set of connections stay as they were and no message goes to any
\* connection.
C12_OtherResourcesIgnored ==
    (last.op = "broadcast" /\ last.kwargs.resource # "flows") =>
        /\ Mock1 = last.pre
        /\ connections = last.conns
        /\ ~last.sent
        /\ last.to = {}

\* an event of another resource came while the scope filter admitted its
\* host, the table held a row and a connection was open
C12_Witness ==
    /\ last.op = "broadcast"
    /\ last.kwargs.resource # "flows"
    /\ Contains(last.kwargs.data.request.host, last.host)
    /\ Len(Mock1) > 0
    /\ connections \ broken # {}

----------------------------------------------------------------------------
(* The fan-out of the last step *)

\* the last step was a broadcast that reached the fan-out loop
Published == last.op = "broadcast" /\ last.outcome \in {"merged", "created"}

\* the connections on which write_message raised in the last step
SendFailed == last.conns \ last.to

----------------------------------------------------------------------------
\* C13: a send that fails on one connection never keeps the message from
\* another connection of the set and is not raised out of broadcast: every
\* healthy connection gets the message, in whatever order the loop goes
\* through the set.
C13_DeliveryIsolation ==
    Published =>
        /\ last.sent
        /\ \A conn \in last.conns \ broken : conn \in last.to
        /\ \A to \in Recipients : to = last.to

\* a message went out while one connection of the set was healthy and
\* another was broken
C13_Witness ==
    /\ Published
    /\ last.conns \ broken # {}
    /\ last.conns \cap broken # {}
    /\ last.to = last.conns \ broken

----------------------------------------------------------------------------
\* C14: a connection whose send fails during a broadcast is removed from the
\* set of connections: when broadcast returns it is no member any more.
\* broadcast passes over the exception and leaves the set as it was.
C14_FailedRemoved ==
    Published => SendFailed \cap connections = {}

----------------------------------------------------------------------------
\* C15: every flows event that passes the scope filter delivers one message
\* to each connection in the set at that moment, so a healthy connection
\* receives the messages of the events broadcast while it is in the set, in
\* their order.  The formula is the first part for the healthy connections.
\* broadcast raises on a stored payload that does not parse and then
\* delivers to nobody.
C15_FanOut ==
    (Ingest /\ ScopeAdmits) => \A conn \in last.conns \ broken : conn \in last.to

----------------------------------------------------------------------------
(* The table before the last step without, and of, the key of the step *)

\* the rows the table held before the last step for other keys, in order
OtherRowsBefore == SelectSeq(last.pre, LAMBDA r : r.url # last.url)

\* the rows the table holds now for other keys, in order
OtherRowsNow == SelectSeq(Mock1, LAMBDA r : r.url # last.url)

\* the row the table holds now for the key of the last step
RowNow == Mock1[CHOOSE i \in RowsOf(Mock1, last.url) : TRUE]

\* the row the table held for the key of the last step before the step
RowBefore == last.pre[CHOOSE i \in RowsOf(last.pre, last.url) : TRUE]

----------------------------------------------------------------------------
\* C16: delete of a key without a record succeeds and leaves the table as it
\* was; delete of a key with a record removes that record and leaves the
\* records of the other keys as they were; a second delete of the key
\* changes nothing.
C16_IdempotentDelete ==
    last.op = "delete" =>
        /\ last.outcome = "ok"
        /\ Mock1 = OtherRowsBefore
        /\ ~Existed => Mock1 = last.pre
        /\ CountUrl(Mock1, last.url) = 0
        /\ DeleteWhere(Mock1, {last.url}) = Mock1

\* a delete removed the record of its key and the record of another key
\* stayed
C16_Witness ==
    /\ last.op = "delete"
    /\ Existed
    /\ Len(Mock1) > 0
    /\ Len(Mock1) < Len(last.pre)

----------------------------------------------------------------------------
\* C17: a request to set the status of a key without a record fails and
\* does not report success, and leaves the table as it was; for a key with a
\* record it changes the status of that record and nothing else.
\* UpdateStatus is no RequestHandler: the request fails before post runs and
\* the status of an existing record is never changed.
C17_SetEnabled ==
    last.op = "setEnabled" =>
        IF Existed
        THEN /\ last.outcome = "ok"
             /\ RowNow.status = last.status
             /\ RowNow.detail = RowBefore.detail
             /\ OtherRowsNow = OtherRowsBefore
        ELSE /\ last.outcome # "ok"
             /\ Mock1 = last.pre

----------------------------------------------------------------------------
\* C18: an update of an existing record through the REST handler is a raw
\* overwrite: afterwards the stored payload is the posted body as it came
\* and the status is the posted status, also when the body has no response
\* and the stored payload had one; the key of the record and the records of
\* the other keys stay as they were.
C18_RawOverwrite ==
    (last.op = "update" /\ Existed) =>
        /\ last.outcome = "ok"
        /\ CountUrl(Mock1, last.url) = 1
        /\ Unquote(RowNow.detail) = last.body
        /\ RowNow.status = last.status
        /\ OtherRowsNow = OtherRowsBefore
        /\ Len(Mock1) = Len(last.pre)

\* a body without a response overwrote a stored payload with a response and
\* changed the status, while a record of another key was stored
C18_Witness ==
    /\ last.op = "update"
    /\ HadResponse
    /\ last.body.wf
    /\ last.body.doc.data.response.kind = "absent"
    /\ RowBefore.status # last.status
    /\ OtherRowsNow # << >>
    /\ TextNow = last.body

----------------------------------------------------------------------------
\* the requests that edit the table through the REST handlers
GatewayWrite == last.op \in {"create", "update", "delete", "setEnabled"}

\* C19: create, update, delete and set-status through the REST handlers
\* never go through broadcast: they deliver no message to any connection and
\* leave the set of connections as it was; a connection only receives
\* messages of flows events.
C19_GatewayNeverBroadcasts ==
    /\ GatewayWrite =>
           /\ ~last.sent
           /\ last.to = {}
           /\ connections = last.conns
    /\ (last.sent \/ last.to # {}) => Ingest

\* a record was created through the REST handler while a healthy connection
\* was open
C19_Witness ==
    /\ last.op = "create"
    /\ last.outcome = "ok"
    /\ Mock1 # last.pre
    /\ connections \ broken # {}

----------------------------------------------------------------------------
\* the rows stored at the last step whose url contains the scope filter of
\* that step, in the order of their insertion
Matching == SelectSeq(last.pre, LAMBDA r : Contains(r.url, last.host))

\* the last listing is the matching rows, one entry for each in order, with
\* the status of the row
ListsMatching ==
    /\ last.outcome = "ok"
    /\ Len(last.listing) = Len(Matching)
    /\ \A i \in 1..Len(Matching) :
          /\ last.listing[i].status = Matching[i].status
          /\ last.listing[i].data = Loads(Unquote(Matching[i].detail)).data

\* C20: the listing is exactly the stored records whose key contains the
\* scope filter as a substring, every record when the filter is empty, in
\* the order of their insertion, each with its status; listing leaves the
\* table as it was.
\* The request fails when the payload of a matching record does not parse.
C20_ListMatching ==
    last.op = "list" => (Mock1 = last.pre /\ ListsMatching)

----------------------------------------------------------------------------
\* every stored payload is a text that json.loads parses
StoredParse == \A i \in 1..Len(Mock1) : ~LoadsRaises(Unquote(Mock1[i].detail))

\* C21: a create or update through the REST handlers whose body is no
\* well-formed record document is rejected and leaves the table as it was,
\* so that no stored payload is one that a later merge or listing can not
\* parse.
\* CreateFlow and UpdateFlow store quote(body) without parsing the body.
C21_MalformedRejected ==
    /\ (last.op \in {"create", "update"} /\ LoadsRaises(last.body)) =>
           /\ last.outcome # "ok"
           /\ Mock1 = last.pre
    /\ StoredParse

----------------------------------------------------------------------------
\* C23: a flows event for a key with a stored record never changes the
\* status of the record: a record that was disabled stays disabled when its
\* request is observed again.
C23_MergeKeepsStatus ==
    (Ingest /\ Existed) =>
        /\ CountUrl(Mock1, last.url) = 1
        /\ RowNow.status = RowBefore.status
        /\ OtherRowsNow = OtherRowsBefore

\* a flows event changed the payload of a record whose status was '0'
C23_Witness ==
    /\ Ingest
    /\ last.outcome = "merged"
    /\ RowBefore.status = "0"
    /\ RowNow.status = "0"
    /\ RowNow.detail # RowBefore.detail

----------------------------------------------------------------------------
\* the urls that have a row now and had none before the last step
NewUrls ==
    {Mock1[i].url : i \in 1..Len(Mock1)} \ {last.pre[i].url : i \in 1..Len(last.pre)}

\* C24: an update through the REST handler for a key without a record
\* creates no record and leaves the whole table as it was; a record only
\* comes into being by a flows event or by a create through the REST
\* handler.
C24_UpdateIsNoUpsert ==
    /\ (last.op = "update" /\ ~Existed) => Mock1 = last.pre
    /\ NewUrls # {} =>
           /\ NewUrls = {last.url}
           /\ \/ last.op = "broadcast" /\ last.outcome = "created"
              \/ last.op = "create" /\ last.outcome = "ok"

\* an update came for a key without a record while the table held the
\* record of another key
C24_Witness ==
    /\ last.op = "update"
    /\ ~Existed
    /\ Len(Mock1) > 0
    /\ Mock1 = last.pre

----------------------------------------------------------------------------
(* The two serial orders of a pair of writers *)

\* the table after the writer w has run alone on the table
SerialResult(w, table) ==
    IF w.kind = "ingest"
    THEN BroadcastTable(table, host, w.kwargs, CountUrl(table, w.url) > 0)
    ELSE IF w.kind = "create"
    THEN LET row == Row(NullId, Quote(w.body), w.url, "1")
         IN  IF InsertRaises(table, row) THEN table ELSE Insert(table, row)
    ELSE UpdateDetailStatus(table, w.url, Quote(w.body), w.status)

\* the pair run one after the other from the table at its arrival
FirstThenSecond == SerialResult(loop.pair[2], SerialResult(loop.pair[1], loop.start))
SecondThenFirst == SerialResult(loop.pair[1], SerialResult(loop.pair[2], loop.start))

\* both writers of the pair have run to their end
BothDone == loop.pos = <<"done", "done">>

============================================================================
